---- MODULE Spec2Model ----
(***************************************************************************)
(* Model of src/worker.ts: a Cloudflare Worker that records a Twilio call, *)
(* waits for the recording, transcribes it with Deepgram, mails the        *)
(* transcript with SendGrid and deletes the recording at Twilio.           *)
(*                                                                         *)
(* Strings the worker builds are sequences of pieces (each piece a TLA+    *)
(* string); "\n\n" and " " are the whitespace pieces String.trim removes.  *)
(* Confidences are integers in thousandths (0.947 is 947), sentence start  *)
(* times are integers in tenths of a second (125.7s is 1257).              *)
(***************************************************************************)
EXTENDS Integers, Sequences, FiniteSets, TLC

\* ------------------------------------------------------------------ bounds

MaxParagraphs == 3
MaxSentences == 2
MaxWords == 3

\* ------------------------------------------------------- program constants

\* waitForRecording(url, env, maxAttempts = 10)
maxAttempts == 10
\* Math.round(x * 1000) / 1000
ScoreScale == 1000
\* confidences.filter(c => c < 0.7), in thousandths
UncertainBelow == 700

\* ----------------------------------------------------------- small helpers

RECURSIVE SumSeq(_)
SumSeq(s) == IF s = <<>> THEN 0 ELSE Head(s) + SumSeq(Tail(s))

\* All sequences over S of length at most n.
SeqsUpTo(S, n) == UNION { [1..k -> S] : k \in 0..n }

\* --------------------------------------------------- String.prototype.trim

Whitespace == {"\n\n", "\n", " ", ""}

RECURSIVE TrimStart(_)
TrimStart(s) ==
  IF s = <<>> THEN <<>>
  ELSE IF Head(s) \in Whitespace THEN TrimStart(Tail(s)) ELSE s

RECURSIVE TrimEnd(_)
TrimEnd(s) ==
  IF s = <<>> THEN <<>>
  ELSE IF s[Len(s)] \in Whitespace THEN TrimEnd(SubSeq(s, 1, Len(s) - 1)) ELSE s

Trim(s) == TrimEnd(TrimStart(s))

\* ------------------------------------------------------------ markdownToHtml

\* The pieces of the model's transcripts hold no asterisk, so the two
\* emphasis replacements find nothing; the newline replacements act.
HtmlPiece(piece) ==
  IF piece = "\n\n" THEN "</p><p>"
  ELSE IF piece = "\n" THEN "<br>"
  ELSE piece

markdownToHtml(markdown) ==
  <<"<p>">> \o [k \in 1..Len(markdown) |-> HtmlPiece(markdown[k])] \o <<"</p>">>

\* ---------------------------------------------------- analyzeDeepgramResponse

\* const channels = apiResult.results?.channels || []
\* (apiResult itself null: the property read throws a TypeError)
AnalyzeThrows(apiResult) == apiResult.isNull

\* channels[0]?.alternatives?.[0]
FirstAlternative(channels) ==
  IF Len(channels[1].alternatives) > 0
  THEN channels[1].alternatives[1]
  ELSE [words |-> <<>>, paragraphs |-> <<>>]

\* paragraph.speaker ?? 0
SpeakerOf(paragraph) == IF paragraph.hasSpeaker THEN paragraph.speaker ELSE 0

\* speakerIdentifier || `Speaker ${speaker + 1}`   ("" stands for undefined too)
SpeakerLabel(speakerIdentifier, speaker) ==
  IF speakerIdentifier # "" THEN speakerIdentifier
  ELSE "Speaker " \o ToString(speaker + 1)

\* seconds.toString().padStart(2, "0")
PadStart2(n) == IF n < 10 THEN "0" \o ToString(n) ELSE ToString(n)

\* `\n\n${speakerLabel} (${minutes}:${seconds...}): `
LabelPieces(speakerLabel, start) ==
  LET minutes == (start \div 10) \div 60
      seconds == (start \div 10) % 60
  IN << "\n\n", speakerLabel,
        " (" \o ToString(minutes) \o ":" \o PadStart2(seconds) \o "):", " " >>

\* As if the cursor started at 0: let previousSpeaker = 0.
SpeakerChangedFromZero(speaker, previousSpeaker) ==
  speaker # (IF previousSpeaker < 0 THEN 0 ELSE previousSpeaker)

\* if (speaker !== previousSpeaker)
SpeakerChanged(speaker, previousSpeaker) == speaker # previousSpeaker

\* One iteration of the inner loop; st = [transcript, previousSpeaker].
SentenceStep(st, paragraph, sentence, speakerIdentifier) ==
  LET speaker == SpeakerOf(paragraph)
      speakerLabel == SpeakerLabel(speakerIdentifier, speaker)
      labelled ==
        IF SpeakerChanged(speaker, st.previousSpeaker)
        THEN [transcript |-> st.transcript \o LabelPieces(speakerLabel, sentence.start),
              previousSpeaker |-> speaker]
        ELSE st
  IN [labelled EXCEPT !.transcript = @ \o <<sentence.text, " ">>]

RECURSIVE SentenceLoop(_, _, _, _)
\* for (const sentence of paragraph.sentences || [])
SentenceLoop(st, paragraph, k, speakerIdentifier) ==
  IF k > Len(paragraph.sentences) THEN st
  ELSE SentenceLoop(SentenceStep(st, paragraph, paragraph.sentences[k], speakerIdentifier),
                    paragraph, k + 1, speakerIdentifier)

RECURSIVE ParagraphLoopLabelling(_, _, _, _)
\* As if the label were written once per paragraph, ahead of the inner loop.
ParagraphLoopLabelling(st, paragraphs, j, speakerIdentifier) ==
  IF j > Len(paragraphs) THEN st
  ELSE ParagraphLoopLabelling(
         SentenceLoop([st EXCEPT !.transcript =
                         @ \o LabelPieces(SpeakerLabel(speakerIdentifier, SpeakerOf(paragraphs[j])), 0)],
                      paragraphs[j], 1, speakerIdentifier),
         paragraphs, j + 1, speakerIdentifier)

RECURSIVE ParagraphLoop(_, _, _, _)
\* for (const paragraph of paragraphs)
ParagraphLoop(st, paragraphs, j, speakerIdentifier) ==
  IF j > Len(paragraphs) THEN st
  ELSE ParagraphLoop(SentenceLoop(st, paragraphs[j], 1, speakerIdentifier),
                     paragraphs, j + 1, speakerIdentifier)

\* let transcript = ""; let previousSpeaker = -1; then the two loops
BuildTranscript(paragraphs, speakerIdentifier) ==
  ParagraphLoop([transcript |-> <<>>, previousSpeaker |-> -1],
                paragraphs, 1, speakerIdentifier).transcript

\* w.confidence || 0
ConfidenceOf(w) == IF w.hasConfidence THEN w.confidence ELSE 0

Confidences(words) == [k \in 1..Len(words) |-> ConfidenceOf(words[k])]

\* Math.floor in place of Math.round.
RoundScoreDown(num, den) == (ScoreScale * num) \div den

\* Math.round((num / den) * 1000), the result in thousandths:
\* Math.round(x) is floor(x + 1/2)
RoundScore(num, den) == (2 * ScoreScale * num + den) \div (2 * den)

\* reduce((a, b) => a + b, 0) / confidences.length, then the rounding;
\* the confidences are thousandths, so the quotient is rescaled
AverageWordConfidence(confidences) ==
  IF Len(confidences) > 0
  THEN RoundScore(SumSeq(confidences), ScoreScale * Len(confidences))
  ELSE 0

\* c < 0.7
IsUncertain(c) == c < UncertainBelow

UncertainWordPercentage(confidences) ==
  LET uncertainWords == Cardinality({k \in 1..Len(confidences) : IsUncertain(confidences[k])})
  IN IF Len(confidences) > 0 THEN RoundScore(uncertainWords, Len(confidences)) ELSE 0

\* As if only the speakers of written sentences were counted.
SpeakerAmountOfSentences(paragraphs) ==
  Cardinality({SpeakerOf(paragraphs[j]) :
                 j \in {i \in 1..Len(paragraphs) : paragraphs[i].sentences # <<>>}})

\* new Set(paragraphs.map(p => p.speaker ?? 0)).size
SpeakerAmount(paragraphs) ==
  Cardinality({SpeakerOf(paragraphs[j]) : j \in 1..Len(paragraphs)})

\* The fields a result without metrics leaves undefined are flagged by
\* hasMetrics = FALSE and hold 0.
EmptyAnalysis ==
  [isNull |-> FALSE, transcript |-> <<>>, transcriptHtml |-> <<>>, hasMetrics |-> FALSE,
   averageWordConfidence |-> 0, uncertainWordPercentage |-> 0, speakerAmount |-> 0]

\* Defined for a non-null apiResult (see AnalyzeThrows).
analyzeDeepgramResponse(apiResult, speakerIdentifier) ==
  LET channels == apiResult.channels
  IN IF Len(channels) = 0 THEN EmptyAnalysis
     ELSE LET words == FirstAlternative(channels).words
              paragraphs == FirstAlternative(channels).paragraphs
              transcript == BuildTranscript(paragraphs, speakerIdentifier)
              confidences == Confidences(words)
          IN [isNull |-> FALSE,
              transcript |-> Trim(transcript),
              transcriptHtml |-> markdownToHtml(Trim(transcript)),
              hasMetrics |-> TRUE,
              averageWordConfidence |-> AverageWordConfidence(confidences),
              uncertainWordPercentage |-> UncertainWordPercentage(confidences),
              speakerAmount |-> SpeakerAmount(paragraphs)]

\* ------------------------------------------------------------ input values

\* The sentences of a paragraph of n sentences: each with its start in
\* tenths of a second (0s, 125.7s, 251.4s, ...) and its text. What a
\* sentence says and when bears on no decision of the assembler, so one
\* sentence list per length stands for all.
SentenceValues(n) ==
  [k \in 1..n |-> [start |-> 1257 * (k - 1), text |-> "Sentence " \o ToString(k) \o "."]]

\* paragraph.speaker is unset, 0 or 1.
SpeakerValues ==
  { [hasSpeaker |-> FALSE, speaker |-> 0],
    [hasSpeaker |-> TRUE, speaker |-> 0],
    [hasSpeaker |-> TRUE, speaker |-> 1] }

ParagraphValues ==
  { [hasSpeaker |-> sp.hasSpeaker, speaker |-> sp.speaker, sentences |-> ss] :
      sp \in SpeakerValues, ss \in { SentenceValues(n) : n \in 0..MaxSentences } }

\* word.confidence is unset or a number of thousandths.
WordValues ==
  { [hasConfidence |-> FALSE, confidence |-> 0] } \cup
  { [hasConfidence |-> TRUE, confidence |-> c] : c \in {0, 699, 700, 900, 950, 990, 1000} }

NullJson == [isNull |-> TRUE, channels |-> <<>>]

NoChannels == [isNull |-> FALSE, channels |-> <<>>]

OneChannel(words, paragraphs) ==
  [isNull |-> FALSE,
   channels |-> << [alternatives |-> << [words |-> words, paragraphs |-> paragraphs] >>] >>]

NoAlternatives == [isNull |-> FALSE, channels |-> << [alternatives |-> <<>>] >>]

SomeWords == << [hasConfidence |-> TRUE, confidence |-> 900],
                [hasConfidence |-> TRUE, confidence |-> 699] >>

SomeParagraphs ==
  << [hasSpeaker |-> TRUE, speaker |-> 0, sentences |-> SentenceValues(1)],
     [hasSpeaker |-> TRUE, speaker |-> 1, sentences |-> SentenceValues(2)] >>

\* A result with a second alternative and a second channel, which hold
\* another speaker's paragraphs and other words.
TwoChannels ==
  [isNull |-> FALSE,
   channels |->
     << [alternatives |->
           << [words |-> << SomeWords[1] >>, paragraphs |-> << SomeParagraphs[1] >>],
              [words |-> SomeWords, paragraphs |-> SomeParagraphs] >>],
        [alternatives |->
           << [words |-> << SomeWords[2] >>, paragraphs |-> << SomeParagraphs[2] >>] >>] >>]

\* The raw results the assembler is applied to: those without a channel or
\* an alternative, every paragraph list within the bounds (the text depends
\* on nothing else), and every word list within the bounds (the metrics
\* depend on nothing else).
EdgeInputs == { NoChannels, NoAlternatives, TwoChannels }

TextInputs ==
  { OneChannel(ws, ps) : ws \in {<<>>, SomeWords}, ps \in SeqsUpTo(ParagraphValues, MaxParagraphs) }

MetricInputs ==
  { OneChannel(ws, ps) : ws \in SeqsUpTo(WordValues, MaxWords), ps \in {<<>>, SomeParagraphs} }

\* The bodies Deepgram answers with in the pipeline.
PipelineResults ==
  { NullJson, NoChannels, OneChannel(SomeWords, <<>>),
    OneChannel(SomeWords, SomeParagraphs),
    OneChannel(<<>>, << SomeParagraphs[1] >>) }

Reqs == {1, 2}

\* What the form body of a request holds; "" stands for an absent (or empty)
\* field, which URLSearchParams.get answers with null.
Events ==
  { [route |-> "/recording-complete", RecordingUrl |-> u, RecordingSid |-> s, From |-> f] :
      u \in {"", "https://api.twilio.com/Recordings/RE1"},
      s \in {"", "RE1"},
      f \in {"", "+15550100"} } \cup
  { [route |-> rt, RecordingUrl |-> "", RecordingSid |-> "", From |-> "+15550100"] :
      rt \in {"/record", "/other"} }

NoEvent == [route |-> "", RecordingUrl |-> "", RecordingSid |-> "", From |-> ""]

\* How an outbound fetch ends: an OK status, a non-OK status (whose body
\* can or cannot be read), or a rejected promise.
FetchOutcomes == {"ok", "not_ok", "not_ok_body_fails", "network_error"}

\* The worker's bindings; "" stands for a secret that is not set. Each of
\* the Deepgram secret, the SendGrid secret and the Twilio credentials is
\* set or not.
EnvValues ==
  { [DEEPGRAM_SECRET |-> d, SENDGRID_SECRET |-> s, TWILIO_ACCOUNT_SID |-> t, TWILIO_AUTH_TOKEN |-> t] :
      d \in {"", "dg-secret"}, s \in {"", "sg-secret"}, t \in {"", "tw-secret"} }

CompleteEnv ==
  [DEEPGRAM_SECRET |-> "dg-secret", SENDGRID_SECRET |-> "sg-secret",
   TWILIO_ACCOUNT_SID |-> "tw-secret", TWILIO_AUTH_TOKEN |-> "tw-secret"]

\* No probe answered yet.
NoProbe == [rejected |-> FALSE, ok |-> FALSE, contentType |-> "-"]

\* The answer to a HEAD probe; contentType "" is a response without the header.
ProbeResponses ==
  { [rejected |-> TRUE, ok |-> FALSE, contentType |-> ""] } \cup
  { [rejected |-> FALSE, ok |-> o, contentType |-> ct] :
      o \in BOOLEAN, ct \in {"", "audio/x-wav", "text/html"} }

\* ------------------------------------------------------------------- state

VARIABLES
  inbound,           \* the requests the provider delivers
  pc,                \* per request: where its handler stands
  event,             \* per request: the parsed form fields
  attempt,           \* per request: waitForRecording's i
  trace,             \* per request: the stage events so far
  transcript,        \* per request: what transcribeRecording returned
  error,             \* per request: the message of the error thrown, or ""
  response,          \* per request: the Response returned
  env,               \* the worker's bindings (secrets); never written
  probe,             \* per request: the answer to the latest HEAD probe
  rawInput,          \* analyzeDeepgramResponse applied alone: its apiResult
  identifierInput,   \* ... its speakerIdentifier
  analysis,          \* ... its result
  analysed           \* ... whether it has run

pipelineVars == <<inbound, pc, event, attempt, trace, transcript, error, response, env, probe>>
analyzeVars == <<rawInput, identifierInput, analysis, analysed>>
vars == <<inbound, pc, event, attempt, trace, transcript, error, response, env, probe,
          rawInput, identifierInput, analysis, analysed>>

NullTranscript == [EmptyAnalysis EXCEPT !.isNull = TRUE]

NoResponse == [status |-> 0, contentType |-> "", body |-> ""]

EmptyTwiML == "<?xml version=\"1.0\" encoding=\"UTF-8\"?><Response></Response>"

\* As if the catch block answered with an error status.
ErrorResponse == [status |-> 500, contentType |-> "text/plain", body |-> "Internal Server Error"]

\* new Response(EmptyTwiML, { headers: { "Content-Type": "text/xml" } })
respondWithEmptyTwiML == [status |-> 200, contentType |-> "text/xml", body |-> EmptyTwiML]

\* ------------------------------------------------------------ the handlers

Returned(v) == [threw |-> FALSE, value |-> v, message |-> ""]

Threw(m) == [threw |-> TRUE, value |-> NullTranscript, message |-> m]

\* A stage event of a request's trace: a stage starts, and ends with
\* "end" (it succeeded) or "failed".
Ev(stage, phase) == [stage |-> stage, phase |-> phase]

\* As if the caller number were passed on as it came: params.get("From").
FromOfRaw(ev) == ev.From

\* params.get("From") || "Unknown"
FromOf(ev) == IF ev.From # "" THEN ev.From ELSE "Unknown"

\* As if the guard tested the other field: if (!recordingSid).
MissingRecordingSid(ev) == ev.RecordingSid = ""

\* if (!recordingUrl)
MissingRecordingUrl(ev) == ev.RecordingUrl = ""

\* As if the loop counter were declared at module level, one for all calls.
CounterShared(r) == 1

\* for (let i = 0; ...): the counter is a local of the call, one per request.
CounterOf(r) == r

\* Off by one: i <= maxAttempts.
LoopContinuesInclusive(i) == i <= maxAttempts

\* i < maxAttempts
LoopContinues(i) == i < maxAttempts

\* As if a response without the header passed: the test skipped when
\* headers.get("Content-Type") is null.
ProbeSucceededLenient(res) ==
  /\ ~res.rejected
  /\ res.ok
  /\ res.contentType \in {"", "audio/x-wav", "audio/mpeg"}

\* response.ok && response.headers.get("Content-Type")?.includes("audio")
\* (a missing header: null?.includes(...) is undefined, which is falsy)
ProbeSucceeded(res) ==
  /\ ~res.rejected
  /\ res.ok
  /\ res.contentType \in {"audio/x-wav", "audio/mpeg"}

\* As if transcribeRecording had no try/catch: what is thrown inside escapes.
transcribeRecordingUncaught(net, jsonParses, apiResult, speakerIdentifier) ==
  IF net = "network_error" THEN Threw("fetch failed")
  ELSE IF net = "not_ok_body_fails" THEN Threw("body unreadable")
  ELSE IF net # "ok" THEN Returned(NullTranscript)
  ELSE IF ~jsonParses THEN Threw("Unexpected token in JSON")
  ELSE IF AnalyzeThrows(apiResult) THEN Threw("Cannot read properties of null")
  ELSE Returned(analyzeDeepgramResponse(apiResult, speakerIdentifier))

\* transcribeRecording: every failure is logged and answered with null.
transcribeRecording(net, jsonParses, apiResult, speakerIdentifier) ==
  IF net = "network_error" THEN Returned(NullTranscript)
  ELSE IF net # "ok" THEN Returned(NullTranscript)
  ELSE IF ~jsonParses THEN Returned(NullTranscript)
  ELSE IF AnalyzeThrows(apiResult) THEN Returned(NullTranscript)
  ELSE Returned(analyzeDeepgramResponse(apiResult, speakerIdentifier))

\* As if the handler went on with whatever transcribeRecording returned.
NoTranscriptIgnored(t) == FALSE

\* As if only null were tested: if (!transcript).
NoTranscriptNullOnly(t) == t.isNull

\* if (!transcript || !transcript.transcript)
NoTranscript(t) == t.isNull \/ t.transcript = <<>>

\* As if sendTranscriptEmail only logged its failures.
sendTranscriptEmailSwallows(net) == Returned(NullTranscript)

\* As if sendTranscriptEmail lacked its if (!response.ok) throw.
sendTranscriptEmailIgnoresStatus(net) ==
  IF net = "network_error" THEN Threw("fetch failed") ELSE Returned(NullTranscript)

\* sendTranscriptEmail: a non-OK status throws "Failed to send email"; the
\* catch block logs and rethrows, as it does a rejected fetch.
sendTranscriptEmail(net) ==
  IF net = "ok" THEN Returned(NullTranscript)
  ELSE IF net = "network_error" THEN Threw("fetch failed")
  ELSE Threw("Failed to send email")

\* As if deleteRecording rethrew what it caught, like sendTranscriptEmail.
deleteRecordingRethrows(net) ==
  IF net \in {"ok", "not_ok"} THEN Returned(NullTranscript) ELSE Threw("fetch failed")

\* deleteRecording: logs the outcome, whatever it is, and returns.
deleteRecording(net) == Returned(NullTranscript)

\* As if the recording were deleted before the transcript is mailed.
NextStageDeleteFirst(stage, ev) ==
  CASE stage = "wait" -> "transcribe"
    [] stage = "transcribe" -> IF ev.RecordingSid # "" THEN "delete" ELSE "email"
    [] stage = "delete" -> "email"
    [] OTHER -> "complete"

\* As if deleteRecording were called without the if (recordingSid) test.
NextStageAlwaysDelete(stage, ev) ==
  CASE stage = "wait" -> "transcribe"
    [] stage = "transcribe" -> "email"
    [] stage = "email" -> "delete"
    [] OTHER -> "complete"

\* The statements of handleRecordingComplete after the guard, in order:
\* waitForRecording, transcribeRecording, sendTranscriptEmail,
\* if (recordingSid) deleteRecording, respondWithEmptyTwiML.
NextStage(stage, ev) ==
  CASE stage = "wait" -> "transcribe"
    [] stage = "transcribe" -> "email"
    [] stage = "email" -> IF ev.RecordingSid # "" THEN "delete" ELSE "complete"
    [] OTHER -> "complete"

\* The catch block of handleRecordingComplete.
CatchResponse == respondWithEmptyTwiML

\* As if the handler answered a request it cannot serve with an error status.
ServiceUnavailableResponse ==
  [status |-> 503, contentType |-> "text/plain", body |-> "Service Unavailable"]

\* The early return for a missing RecordingUrl: the same Response, inline.
MissingUrlResponse == [status |-> 200, contentType |-> "text/xml", body |-> EmptyTwiML]

\* fetch: the router. /record is answered by handleInitialCall at once (its
\* TwiML is not modelled beyond its kind), any other path with 404, and
\* /recording-complete enters handleRecordingComplete.
Fetch(r) ==
  /\ r \in inbound
  /\ pc[r] = "idle"
  /\ \E ev \in Events :
       /\ event' = [event EXCEPT ![r] = ev]
       /\ IF ev.route = "/record"
          THEN /\ response' = [response EXCEPT ![r] =
                    [status |-> 200, contentType |-> "text/xml", body |-> "<Response><Record/></Response>"]]
               /\ pc' = [pc EXCEPT ![r] = "done"]
          ELSE IF ev.route = "/recording-complete"
          THEN /\ pc' = [pc EXCEPT ![r] = "read_body"]
               /\ UNCHANGED response
          ELSE /\ response' = [response EXCEPT ![r] =
                    [status |-> 404, contentType |-> "text/plain", body |-> "Not Found"]]
               /\ pc' = [pc EXCEPT ![r] = "done"]
  /\ UNCHANGED <<inbound, env, probe, attempt, trace, transcript, error, analyzeVars>>

\* await request.text(), the parameters, and the RecordingUrl guard.
ReadBody(r) ==
  /\ pc[r] = "read_body"
  /\ \E readable \in BOOLEAN :
       IF ~readable
       THEN /\ pc' = [pc EXCEPT ![r] = "catch"]
            /\ error' = [error EXCEPT ![r] = "body unreadable"]
            /\ UNCHANGED <<response, trace, attempt>>
       ELSE IF MissingRecordingUrl(event[r])
       THEN /\ response' = [response EXCEPT ![r] = MissingUrlResponse]
            /\ trace' = [trace EXCEPT ![r] = Append(@, Ev("ack", "end"))]
            /\ pc' = [pc EXCEPT ![r] = "done"]
            /\ UNCHANGED <<error, attempt>>
       ELSE /\ pc' = [pc EXCEPT ![r] = "wait_loop"]
            /\ attempt' = [attempt EXCEPT ![CounterOf(r)] = 0]
            /\ UNCHANGED <<response, trace, error>>
  /\ UNCHANGED <<inbound, env, probe, event, transcript, analyzeVars>>

\* waitForRecording: the loop test; either the next HEAD probe is sent or
\* the loop is over and the error is thrown.
WaitLoop(r) ==
  /\ pc[r] = "wait_loop"
  /\ IF LoopContinues(attempt[CounterOf(r)])
     THEN /\ trace' = [trace EXCEPT ![r] = Append(@, Ev("probe", "start"))]
          /\ pc' = [pc EXCEPT ![r] = "wait_fetch"]
          /\ UNCHANGED error
     ELSE /\ error' = [error EXCEPT ![r] = "Recording not available after retries"]
          /\ pc' = [pc EXCEPT ![r] = "catch"]
          /\ UNCHANGED trace
  /\ UNCHANGED <<inbound, env, probe, event, attempt, transcript, response, analyzeVars>>

\* waitForRecording: the probe resolves or rejects.
WaitFetch(r) ==
  /\ pc[r] = "wait_fetch"
  /\ \E res \in ProbeResponses :
       /\ probe' = [probe EXCEPT ![r] = res]
       /\ IF ProbeSucceeded(res)
          THEN /\ trace' = [trace EXCEPT ![r] = Append(@, Ev("probe", "end"))]
               /\ pc' = [pc EXCEPT ![r] = NextStage("wait", event[r])]
          ELSE /\ trace' = [trace EXCEPT ![r] = Append(@, Ev("probe", "failed"))]
               /\ pc' = [pc EXCEPT ![r] = "wait_sleep"]
  /\ UNCHANGED <<inbound, env, event, attempt, transcript, error, response, analyzeVars>>

\* As if the promise were never resolved: setTimeout(() => {}, 1000).
TimerNeverFires == FALSE

\* await new Promise((resolve) => setTimeout(resolve, 1000))
TimerFires == TRUE

\* i++
NextAttempt(i) == i + 1

\* waitForRecording: the one-second timer fires, then i++.
WaitSleep(r) ==
  /\ pc[r] = "wait_sleep"
  /\ TimerFires
  /\ attempt' = [attempt EXCEPT ![CounterOf(r)] = NextAttempt(@)]
  /\ pc' = [pc EXCEPT ![r] = "wait_loop"]
  /\ UNCHANGED <<inbound, env, probe, event, trace, transcript, error, response, analyzeVars>>

\* transcribeRecording: the POST to Deepgram is sent.
TranscribeCall(r) ==
  /\ pc[r] = "transcribe"
  /\ trace' = [trace EXCEPT ![r] = Append(@, Ev("transcribe", "start"))]
  /\ pc' = [pc EXCEPT ![r] = "transcribe_fetch"]
  /\ UNCHANGED <<inbound, env, probe, event, attempt, transcript, error, response, analyzeVars>>

\* transcribeRecording: the POST ends, the body is parsed and assembled.
TranscribeFetch(r) ==
  /\ pc[r] = "transcribe_fetch"
  /\ \E net \in FetchOutcomes, jsonParses \in BOOLEAN, raw \in PipelineResults :
       LET res == transcribeRecording(net, jsonParses, raw, FromOf(event[r]))
           answered == net = "ok" /\ jsonParses
       IN /\ trace' = [trace EXCEPT ![r] =
                 IF answered
                 THEN @ \o << Ev("transcribe", "end"), Ev("assemble", "start"),
                              Ev("assemble", IF AnalyzeThrows(raw) THEN "failed" ELSE "end") >>
                 ELSE Append(@, Ev("transcribe", "failed"))]
          /\ IF res.threw
             THEN /\ error' = [error EXCEPT ![r] = res.message]
                  /\ pc' = [pc EXCEPT ![r] = "catch"]
                  /\ UNCHANGED transcript
             ELSE /\ transcript' = [transcript EXCEPT ![r] = res.value]
                  /\ pc' = [pc EXCEPT ![r] = "check_transcript"]
                  /\ UNCHANGED error
  /\ UNCHANGED <<inbound, env, probe, event, attempt, response, analyzeVars>>

\* if (!transcript || !transcript.transcript) return respondWithEmptyTwiML()
CheckTranscript(r) ==
  /\ pc[r] = "check_transcript"
  /\ IF NoTranscript(transcript[r])
     THEN /\ response' = [response EXCEPT ![r] = respondWithEmptyTwiML]
          /\ trace' = [trace EXCEPT ![r] = Append(@, Ev("ack", "end"))]
          /\ pc' = [pc EXCEPT ![r] = "done"]
     ELSE /\ pc' = [pc EXCEPT ![r] = NextStage("transcribe", event[r])]
          /\ UNCHANGED <<response, trace>>
  /\ UNCHANGED <<inbound, env, probe, event, attempt, transcript, error, analyzeVars>>

\* sendTranscriptEmail: the POST to SendGrid is sent.
EmailCall(r) ==
  /\ pc[r] = "email"
  /\ trace' = [trace EXCEPT ![r] = Append(@, Ev("notify", "start"))]
  /\ pc' = [pc EXCEPT ![r] = "email_fetch"]
  /\ UNCHANGED <<inbound, env, probe, event, attempt, transcript, error, response, analyzeVars>>

\* sendTranscriptEmail: the POST ends.
EmailFetch(r) ==
  /\ pc[r] = "email_fetch"
  /\ \E net \in FetchOutcomes :
       LET res == sendTranscriptEmail(net)
       IN /\ trace' = [trace EXCEPT ![r] =
                 Append(@, Ev("notify", IF net = "ok" THEN "end" ELSE "failed"))]
          /\ IF res.threw
             THEN /\ error' = [error EXCEPT ![r] = res.message]
                  /\ pc' = [pc EXCEPT ![r] = "catch"]
             ELSE /\ pc' = [pc EXCEPT ![r] = NextStage("email", event[r])]
                  /\ UNCHANGED error
  /\ UNCHANGED <<inbound, env, probe, event, attempt, transcript, response, analyzeVars>>

\* deleteRecording: the DELETE to Twilio is sent.
DeleteCall(r) ==
  /\ pc[r] = "delete"
  /\ trace' = [trace EXCEPT ![r] = Append(@, Ev("delete", "start"))]
  /\ pc' = [pc EXCEPT ![r] = "delete_fetch"]
  /\ UNCHANGED <<inbound, env, probe, event, attempt, transcript, error, response, analyzeVars>>

\* deleteRecording: the DELETE ends.
DeleteFetch(r) ==
  /\ pc[r] = "delete_fetch"
  /\ \E net \in FetchOutcomes :
       LET res == deleteRecording(net)
       IN /\ trace' = [trace EXCEPT ![r] =
                 Append(@, Ev("delete", IF net = "ok" THEN "end" ELSE "failed"))]
          /\ IF res.threw
             THEN /\ error' = [error EXCEPT ![r] = res.message]
                  /\ pc' = [pc EXCEPT ![r] = "catch"]
             ELSE /\ pc' = [pc EXCEPT ![r] = NextStage("delete", event[r])]
                  /\ UNCHANGED error
  /\ UNCHANGED <<inbound, env, probe, event, attempt, transcript, response, analyzeVars>>

\* console.log("Processing complete"); return respondWithEmptyTwiML()
Complete(r) ==
  /\ pc[r] = "complete"
  /\ response' = [response EXCEPT ![r] = respondWithEmptyTwiML]
  /\ trace' = [trace EXCEPT ![r] = Append(@, Ev("ack", "end"))]
  /\ pc' = [pc EXCEPT ![r] = "done"]
  /\ UNCHANGED <<inbound, env, probe, event, attempt, transcript, error, analyzeVars>>

\* catch (error) { ...; return respondWithEmptyTwiML() }
Catch(r) ==
  /\ pc[r] = "catch"
  /\ response' = [response EXCEPT ![r] = CatchResponse]
  /\ trace' = [trace EXCEPT ![r] = Append(@, Ev("ack", "end"))]
  /\ pc' = [pc EXCEPT ![r] = "done"]
  /\ UNCHANGED <<inbound, env, probe, event, attempt, transcript, error, analyzeVars>>

\* analyzeDeepgramResponse applied to the argument drawn in InitAnalyze.
Analyze ==
  /\ ~analysed
  /\ ~AnalyzeThrows(rawInput)
  /\ analysis' = analyzeDeepgramResponse(rawInput, identifierInput)
  /\ analysed' = TRUE
  /\ UNCHANGED <<rawInput, identifierInput, pipelineVars>>

\* ---------------------------------------------------------- specifications

InitPipeline ==
  /\ pc = [r \in Reqs |-> "idle"]
  /\ event = [r \in Reqs |-> NoEvent]
  /\ attempt = [r \in Reqs |-> 0]
  /\ trace = [r \in Reqs |-> <<>>]
  /\ transcript = [r \in Reqs |-> NullTranscript]
  /\ error = [r \in Reqs |-> ""]
  /\ response = [r \in Reqs |-> NoResponse]
  /\ probe = [r \in Reqs |-> NoProbe]

\* One recording-complete request at a time: the provider delivers request 1.
Init ==
  /\ inbound = {1}
  /\ env \in EnvValues
  /\ InitPipeline
  /\ rawInput = NoChannels
  /\ identifierInput = ""
  /\ analysis = EmptyAnalysis
  /\ analysed = TRUE

\* What the runtime does on its own once a request is in: promises settle,
\* the timer fires, the handler goes on.
Continue(r) ==
  \/ ReadBody(r)
  \/ WaitLoop(r)
  \/ WaitFetch(r)
  \/ WaitSleep(r)
  \/ TranscribeCall(r)
  \/ TranscribeFetch(r)
  \/ CheckTranscript(r)
  \/ EmailCall(r)
  \/ EmailFetch(r)
  \/ DeleteCall(r)
  \/ DeleteFetch(r)
  \/ Complete(r)
  \/ Catch(r)

Next == \E r \in Reqs : Fetch(r) \/ Continue(r)

Spec == Init /\ [][Next]_vars

\* Every outbound call settles, the timer fires and the handler resumes.
SpecLive == Spec /\ \A r \in Reqs : WF_vars(Continue(r))

\* analyzeDeepgramResponse on its own, over every input within the bounds.
InitAnalyze ==
  /\ inbound = {}
  /\ env = CompleteEnv
  /\ InitPipeline
  /\ \/ rawInput \in EdgeInputs
     \/ rawInput \in TextInputs
     \/ rawInput \in MetricInputs
  /\ identifierInput \in {"", "+15550100"}
  /\ analysis = EmptyAnalysis
  /\ analysed = FALSE

NextAnalyze == Analyze

SpecAnalyze == InitAnalyze /\ [][NextAnalyze]_vars

\* The assembler called on its own, with or without a speakerIdentifier,
\* next to the pipeline, which calls it with the caller number.
LabelInputs ==
  { OneChannel(SomeWords, SomeParagraphs),
    OneChannel(<<>>, << [hasSpeaker |-> FALSE, speaker |-> 0, sentences |-> SentenceValues(2)],
                        [hasSpeaker |-> TRUE, speaker |-> 1, sentences |-> SentenceValues(1)] >>),
    TwoChannels }

InitLabels ==
  /\ inbound = {1}
  /\ env = CompleteEnv
  /\ InitPipeline
  /\ rawInput \in LabelInputs
  /\ identifierInput \in {"", "+15550100"}
  /\ analysis = EmptyAnalysis
  /\ analysed = FALSE

NextLabels == Next \/ Analyze

SpecLabels == InitLabels /\ [][NextLabels]_vars

\* Two recording-complete requests in flight at once. The events and the
\* answers of the providers are taken from a part of their values: events
\* of the pipeline's route with a caller number, probes answered with an OK
\* status, notifications not rejected, and three of the Deepgram bodies.
ConcurrentEnvironment ==
  \A r \in Reqs :
    /\ event[r] = NoEvent \/ (event[r].route = "/recording-complete" /\ event[r].From # "")
    /\ probe[r] = NoProbe \/ (~probe[r].rejected /\ probe[r].ok /\ probe[r].contentType # "text/html")
    /\ error[r] # "fetch failed"
    /\ transcript[r].isNull \/ transcript[r].speakerAmount \in {0, 2}

InitConcurrent ==
  /\ inbound = Reqs
  /\ env = CompleteEnv
  /\ InitPipeline
  /\ rawInput = NoChannels
  /\ identifierInput = ""
  /\ analysis = EmptyAnalysis
  /\ analysed = TRUE

NextConcurrent == Next /\ ConcurrentEnvironment'

SpecConcurrent == InitConcurrent /\ [][NextConcurrent]_vars

\* ------------------------------------------------------------------ claims

\* How often a stage event occurs in a trace.
Count(tr, stage, phase) ==
  Cardinality({k \in 1..Len(tr) : tr[k] = [stage |-> stage, phase |-> phase]})

Has(tr, stage, phase) == Count(tr, stage, phase) > 0

\* The stages that are calls to another service.
OutboundStages == {"probe", "transcribe", "notify", "delete"}

IsRecordingComplete(r) == event[r].route = "/recording-complete"

TheAcknowledgment ==
  [status |-> 200, contentType |-> "text/xml",
   body |-> "<?xml version=\"1.0\" encoding=\"UTF-8\"?><Response></Response>"]

\* C1: a recording-complete request is answered with the empty successful
\* TwiML acknowledgment and with nothing else, whatever happened before:
\* once its handler is over the response is that acknowledgment, also when
\* an error was thrown on the way, and until then there is no response.
C1_AlwaysAcknowledged ==
  \A r \in Reqs :
    IsRecordingComplete(r) =>
      /\ response[r] \in {NoResponse, TheAcknowledgment}
      /\ pc[r] = "done" <=> response[r] = TheAcknowledgment

\* C1 happens: the notification step threw and the request was acknowledged.
C1_Witness ==
  /\ pc[1] = "done"
  /\ error[1] = "Failed to send email"
  /\ response[1] = TheAcknowledgment

\* C2: a recording-complete event without RecordingUrl makes no outbound
\* call (no probe, transcription request, notification or deletion), and
\* once handled it has the acknowledgment.
C2_NoUrlNoCalls ==
  \A r \in Reqs :
    (IsRecordingComplete(r) /\ event[r].RecordingUrl = "") =>
      /\ \A k \in 1..Len(trace[r]) : trace[r][k].stage \notin OutboundStages
      /\ pc[r] \in {"read_body", "catch", "done"}
      /\ pc[r] = "done" => response[r] = TheAcknowledgment

\* C2 happens: an event with a RecordingSid but no RecordingUrl was
\* acknowledged without an error.
C2_Witness ==
  /\ IsRecordingComplete(1)
  /\ event[1].RecordingUrl = ""
  /\ event[1].RecordingSid # ""
  /\ pc[1] = "done"
  /\ error[1] = ""

\* C3: waitForRecording sends at most maxAttempts (10) probes, none after a
\* successful one, and throws "Recording not available after retries" only
\* when 10 probes failed and none succeeded; while fewer have failed the
\* poll goes on without an error.
C3_BoundedPoll ==
  \A r \in Reqs :
    LET tr == trace[r]
        unavailable == error[r] = "Recording not available after retries"
    IN /\ Count(tr, "probe", "start") <= 10
       /\ \A k \in 1..Len(tr) :
            tr[k] = [stage |-> "probe", phase |-> "end"] =>
              \A j \in (k + 1)..Len(tr) : tr[j].stage # "probe"
       /\ unavailable => (Count(tr, "probe", "failed") = 10 /\ ~Has(tr, "probe", "end"))
       /\ (pc[r] \in {"wait_loop", "wait_fetch", "wait_sleep"}
             /\ Count(tr, "probe", "failed") < 10) => error[r] = ""
       /\ (Has(tr, "probe", "failed") /\ ~Has(tr, "probe", "end")
             /\ Count(tr, "probe", "failed") < 10)
            => pc[r] \in {"wait_loop", "wait_fetch", "wait_sleep"}

\* C3 happens: ten probes failed and the poll gave up.
C3_Witness ==
  /\ error[1] = "Recording not available after retries"
  /\ Count(trace[1], "probe", "failed") = 10
  /\ pc[1] = "done"

\* The place of a stage in the pipeline's order.
Rank(stage) ==
  CASE stage = "probe" -> 1
    [] stage = "transcribe" -> 2
    [] stage = "assemble" -> 3
    [] stage = "notify" -> 4
    [] stage = "delete" -> 5
    [] OTHER -> 6

C5_NullTranscriptAborts ==
  \A r \in Reqs :
    (Has(trace[r], "transcribe", "failed") \/ Has(trace[r], "assemble", "failed")) =>
      /\ error[r] = ""
      /\ transcript[r].isNull
      /\ pc[r] \in {"check_transcript", "done"}
      /\ ~Has(trace[r], "notify", "start")
      /\ ~Has(trace[r], "delete", "start")
      /\ pc[r] = "done" => response[r] = TheAcknowledgment

\* C5 happens: the transcription request failed and the run was acknowledged.
C5_Witness ==
  /\ Has(trace[1], "transcribe", "failed")
  /\ pc[1] = "done"

\* C6: whether the DELETE succeeds or fails, deleteRecording returns
\* normally: nothing is thrown and the pipeline goes on to its normal end
\* and the acknowledgment.
C6_DeleteBestEffort ==
  \A r \in Reqs :
    (Has(trace[r], "delete", "failed") \/ Has(trace[r], "delete", "end")) =>
      /\ error[r] = ""
      /\ pc[r] \in {"complete", "done"}
      /\ pc[r] = "done" => response[r] = TheAcknowledgment

\* C6 happens: the DELETE failed and the run was acknowledged.
C6_Witness ==
  /\ Has(trace[1], "delete", "failed")
  /\ pc[1] = "done"
  /\ response[1] = TheAcknowledgment

\* C7: every recording-complete request that came in eventually has its
\* response, provided every outbound call settles and the timer fires.
C7_EventuallyAcknowledged ==
  \A r \in Reqs :
    (pc[r] # "idle" /\ IsRecordingComplete(r)) ~> (response[r] = TheAcknowledgment)

\* C7 happens: the longest run, all ten probes, reached its response.
C7_Witness ==
  /\ attempt[1] = 10
  /\ response[1] = TheAcknowledgment

\* The sentences of a paragraph list in order, each with the speaker id of
\* its paragraph (an unset id is 0).
RECURSIVE Flatten(_)
Flatten(paragraphs) ==
  IF paragraphs = <<>> THEN <<>>
  ELSE LET p == Head(paragraphs)
       IN [k \in 1..Len(p.sentences) |->
             [speaker |-> IF p.hasSpeaker THEN p.speaker ELSE 0,
              start |-> p.sentences[k].start,
              text |-> p.sentences[k].text]]
          \o Flatten(Tail(paragraphs))

\* A sentence gets a label when it is the first one or its speaker id is
\* not that of the sentence right before it.
LabelDue(flat, k) == k = 1 \/ flat[k].speaker # flat[k - 1].speaker

RECURSIVE LabelledText(_, _, _)
\* The text of sentences k.. of flat, with a label where one is due.
LabelledText(flat, k, ident) ==
  IF k > Len(flat) THEN <<>>
  ELSE (IF LabelDue(flat, k)
        THEN LabelPieces(SpeakerLabel(ident, flat[k].speaker), flat[k].start)
        ELSE <<>>)
       \o <<flat[k].text, " ">> \o LabelledText(flat, k + 1, ident)

InputParagraphs ==
  IF Len(rawInput.channels) = 0 \/ Len(rawInput.channels[1].alternatives) = 0
  THEN <<>>
  ELSE rawInput.channels[1].alternatives[1].paragraphs

InputWords ==
  IF Len(rawInput.channels) = 0 \/ Len(rawInput.channels[1].alternatives) = 0
  THEN <<>>
  ELSE rawInput.channels[1].alternatives[1].words

\* C8: the assembled text carries a speaker label before a sentence exactly
\* when that sentence's speaker id differs from the id of the sentence right
\* before it, and before the first sentence: the text is the sentences in
\* order with a label at those places and nowhere else.
C8_LabelIffSpeakerChanges ==
  analysed =>
    analysis.transcript = Trim(LabelledText(Flatten(InputParagraphs), 1, identifierInput))

\* C8 happens: three paragraphs, the first of speaker 0 and the last of
\* speaker 1 with two sentences each, between them a paragraph without
\* speaker id and without sentences: a label is due at the first sentence
\* and at the change of speaker, and none within a paragraph.
C8_Witness ==
  LET flat == Flatten(InputParagraphs)
  IN /\ analysed
     /\ identifierInput = ""
     /\ Len(InputParagraphs) = 3
     /\ InputParagraphs[1].hasSpeaker /\ InputParagraphs[1].speaker = 0
     /\ ~InputParagraphs[2].hasSpeaker /\ InputParagraphs[2].sentences = <<>>
     /\ InputParagraphs[3].hasSpeaker /\ InputParagraphs[3].speaker = 1
     /\ Len(flat) = 4
     /\ LabelDue(flat, 3) /\ ~LabelDue(flat, 2) /\ ~LabelDue(flat, 4)
     /\ Len(analysis.transcript) = 14

\* num / den lies within half a thousandth of milli / 1000.
NearestThousandth(milli, num, den) ==
  /\ 2 * (1000 * num - milli * den) <= den
  /\ 2 * (milli * den - 1000 * num) <= den

\* C9: for a word list whose words all carry a confidence,
\* averageWordConfidence is the mean of the confidences rounded to three
\* decimals and uncertainWordPercentage is the fraction of words with a
\* confidence below 0.7 rounded to three decimals; both are 0 for no words
\* and both lie in [0, 1]; [0.9, 0.95, 0.99] gives 0.947 and 0.
C9_ConfidenceMetrics ==
  (analysed /\ analysis.hasMetrics /\ \A k \in 1..Len(InputWords) : InputWords[k].hasConfidence) =>
    LET cs == [k \in 1..Len(InputWords) |-> InputWords[k].confidence]
        n == Len(cs)
        below == Cardinality({k \in 1..n : cs[k] < 700})
    IN /\ analysis.averageWordConfidence \in 0..1000
       /\ analysis.uncertainWordPercentage \in 0..1000
       /\ n = 0 => (analysis.averageWordConfidence = 0 /\ analysis.uncertainWordPercentage = 0)
       /\ n > 0 => /\ NearestThousandth(analysis.averageWordConfidence, SumSeq(cs), 1000 * n)
                   /\ NearestThousandth(analysis.uncertainWordPercentage, below, n)
       /\ cs = <<900, 950, 990>> =>
            (analysis.averageWordConfidence = 947 /\ analysis.uncertainWordPercentage = 0)

\* C9 happens: the metrics of the confidences [0.9, 0.95, 0.99].
C9_Witness ==
  /\ analysed
  /\ analysis.hasMetrics
  /\ Len(InputWords) = 3
  /\ \A k \in 1..3 : InputWords[k].hasConfidence
  /\ [k \in 1..3 |-> InputWords[k].confidence] = <<900, 950, 990>>
  /\ analysis.averageWordConfidence = 947

ProbeJustAnswered(r) ==
  /\ Len(trace[r]) > 0
  /\ trace[r][Len(trace[r])].stage = "probe"
  /\ trace[r][Len(trace[r])].phase # "start"

\* C11 as stated: a probe counts as successful exactly when it was answered
\* with an OK status and either no content type or an audio content type.
C11_MissingContentTypeSucceeds ==
  \A r \in Reqs :
    ProbeJustAnswered(r) =>
      (trace[r][Len(trace[r])].phase = "end" <=>
         (~probe[r].rejected /\ probe[r].ok
            /\ probe[r].contentType \in {"", "audio/x-wav", "audio/mpeg"}))

\* C11, amended: a probe counts as successful exactly when it was answered
\* with an OK status and a content type that indicates audio; an OK answer
\* without a content type is a failure, like one with another content type.
C11_ProbeNeedsAudioContentType ==
  \A r \in Reqs :
    ProbeJustAnswered(r) =>
      (trace[r][Len(trace[r])].phase = "end" <=>
         (~probe[r].rejected /\ probe[r].ok
            /\ probe[r].contentType \in {"audio/x-wav", "audio/mpeg"}))

\* C11 happens: an OK answer without a content type was taken as a failure
\* and the poll sleeps before its next probe.
C11_Witness ==
  /\ ProbeJustAnswered(1)
  /\ ~probe[1].rejected /\ probe[1].ok /\ probe[1].contentType = ""
  /\ trace[1][Len(trace[1])].phase = "failed"
  /\ pc[1] = "wait_sleep"

\* C12: the pipeline stops at the first failure. When the poll is exhausted
\* no transcription request, notification or deletion is made; when
\* transcribeRecording answered null no notification or deletion is made;
\* when the notification throws, the error is caught by the handler's catch
\* block, no deletion follows and the run ends with the acknowledgment.
C12_ShortCircuits ==
  \A r \in Reqs :
    /\ error[r] = "Recording not available after retries" =>
         \A st \in {"transcribe", "notify", "delete"} : ~Has(trace[r], st, "start")
    /\ (Has(trace[r], "transcribe", "start") /\ pc[r] # "transcribe_fetch" /\ transcript[r].isNull) =>
         \A st \in {"notify", "delete"} : ~Has(trace[r], st, "start")
    /\ Has(trace[r], "notify", "failed") =>
         /\ error[r] \in {"Failed to send email", "fetch failed"}
         /\ pc[r] \in {"catch", "done"}
         /\ ~Has(trace[r], "delete", "start")
         /\ pc[r] = "done" => response[r] = TheAcknowledgment

\* C12 happens: the assembly threw on a null body, transcribeRecording
\* answered null, and the run of an event with a RecordingSid ended without
\* notification or deletion.
C12_Witness ==
  /\ pc[1] = "done"
  /\ Has(trace[1], "assemble", "failed")
  /\ transcript[1].isNull
  /\ event[1].RecordingSid # ""
  /\ ~Has(trace[1], "notify", "start")
  /\ response[1] = TheAcknowledgment

\* C13: deleteRecording is called only for an event that carried a
\* RecordingSid: without one no DELETE is ever sent, and after the
\* notification the run goes straight on to its normal end and the
\* acknowledgment.
C13_DeleteOnlyWithRecordingSid ==
  \A r \in Reqs :
    (IsRecordingComplete(r) /\ event[r].RecordingSid = "") =>
      /\ \A ph \in {"start", "end", "failed"} : ~Has(trace[r], "delete", ph)
      /\ Has(trace[r], "notify", "end") =>
           /\ pc[r] \in {"complete", "done"}
           /\ error[r] = ""
           /\ pc[r] = "done" => response[r] = TheAcknowledgment

\* C13 happens: an event without RecordingSid was transcribed and mailed,
\* and its run is over.
C13_Witness ==
  /\ pc[1] = "done"
  /\ IsRecordingComplete(1)
  /\ event[1].RecordingSid = ""
  /\ Has(trace[1], "notify", "end")
  /\ error[1] = ""
  /\ response[1] = TheAcknowledgment

\* C19: a transcription result that is not null but whose text is empty (no
\* channel, or no sentence) is treated like null: the run ends at the
\* transcript test with the acknowledgment and without an error, no
\* notification is sent and no deletion is made, RecordingSid or not.
C19_EmptyTextAborts ==
  \A r \in Reqs :
    (Has(trace[r], "assemble", "end") /\ ~transcript[r].isNull /\ transcript[r].transcript = <<>>) =>
      /\ pc[r] \in {"check_transcript", "done"}
      /\ error[r] = ""
      /\ \A st \in {"notify", "delete"}, ph \in {"start", "end", "failed"} : ~Has(trace[r], st, ph)
      /\ pc[r] = "done" => response[r] = TheAcknowledgment

\* C19 happens: the result of an event with a RecordingSid had a channel
\* with words but no sentence, and the run ended with the recording kept.
C19_Witness ==
  /\ pc[1] = "done"
  /\ event[1].RecordingSid # ""
  /\ Has(trace[1], "assemble", "end")
  /\ ~transcript[1].isNull
  /\ transcript[1].hasMetrics
  /\ transcript[1].transcript = <<>>
  /\ ~Has(trace[1], "delete", "start")
  /\ response[1] = TheAcknowledgment

MissingConfiguration == \E k \in DOMAIN env : env[k] = ""

C16_TextOnlyFromSentences ==
  /\ (~rawInput.isNull /\ Len(rawInput.channels) = 0) => ~AnalyzeThrows(rawInput)
  /\ analysed =>
    /\ analysis.transcript # <<>> =>
         \E j \in 1..Len(InputParagraphs) : Len(InputParagraphs[j].sentences) >= 1
    /\ Len(rawInput.channels) = 0 =>
         /\ ~analysis.isNull
         /\ analysis.transcript = <<>>
         /\ analysis.transcriptHtml = <<>>
         /\ ~analysis.hasMetrics
    /\ (Len(rawInput.channels) > 0 /\ \A j \in 1..Len(InputParagraphs) : InputParagraphs[j].sentences = <<>>) =>
         /\ ~analysis.isNull
         /\ analysis.transcript = <<>>

\* C16 happens: a channel whose paragraphs, of two speakers, hold no
\* sentence gives the empty text.
C16_Witness ==
  /\ analysed
  /\ Len(rawInput.channels) > 0
  /\ Len(InputParagraphs) >= 2
  /\ \A j \in 1..Len(InputParagraphs) : InputParagraphs[j].sentences = <<>>
  /\ \E j \in 1..Len(InputParagraphs) : InputParagraphs[j].hasSpeaker /\ InputParagraphs[j].speaker = 1
  /\ analysis.transcript = <<>>
  /\ analysis.hasMetrics

\* The speaker id a paragraph counts for: its own, 0 when it has none.
CountsFor(paragraph, id) ==
  \/ paragraph.hasSpeaker /\ paragraph.speaker = id
  \/ ~paragraph.hasSpeaker /\ id = 0

\* C18: speakerAmount is the number of distinct speaker ids of the
\* paragraphs of the first channel's first alternative, a paragraph without
\* id counting for id 0 and a paragraph without sentences counting like any
\* other.
C18_SpeakerAmountCountsAllParagraphs ==
  (analysed /\ Len(rawInput.channels) > 0) =>
    analysis.speakerAmount =
      Cardinality({id \in 0..1 : \E j \in 1..Len(InputParagraphs) : CountsFor(InputParagraphs[j], id)})

\* C18 happens: speaker 1 has only a paragraph without sentences, another
\* paragraph has no speaker id, and two speakers are counted.
C18_Witness ==
  /\ analysed
  /\ Len(InputParagraphs) = 3
  /\ \E j \in 1..3 : ~InputParagraphs[j].hasSpeaker
  /\ \E j \in 1..3 : InputParagraphs[j].hasSpeaker /\ InputParagraphs[j].speaker = 1
  /\ \A j \in 1..3 : (InputParagraphs[j].hasSpeaker /\ InputParagraphs[j].speaker = 1) =>
                        InputParagraphs[j].sentences = <<>>
  /\ \E j \in 1..3 : InputParagraphs[j].sentences # <<>>
  /\ analysis.speakerAmount = 2

\* The pieces a label's time stamp can be: " (m:ss):".
TimestampPieces ==
  { " (" \o ToString(m) \o ":" \o PadStart2(sec) \o "):" : m \in 0..9, sec \in 0..59 }

RECURSIVE LabelsFrom(_, _)
\* The label texts of an assembled text, in order: the pieces from the k-th
\* on that stand right before a time stamp.
LabelsFrom(text, k) ==
  IF k >= Len(text) THEN <<>>
  ELSE (IF text[k + 1] \in TimestampPieces THEN << text[k] >> ELSE <<>>)
       \o LabelsFrom(text, k + 1)

RECURSIVE ExpectedLabels(_, _, _)
\* The label texts due for sentences k.. of flat: the override when there
\* is one, "Speaker <id + 1>" otherwise.
ExpectedLabels(flat, k, override) ==
  IF k > Len(flat) THEN <<>>
  ELSE (IF LabelDue(flat, k)
        THEN << IF override # "" THEN override
                ELSE "Speaker " \o ToString(flat[k].speaker + 1) >>
        ELSE <<>>)
       \o ExpectedLabels(flat, k + 1, override)

\* C17: the text of every label is the speakerIdentifier when one is given
\* and "Speaker <id + 1>" otherwise; the pipeline always gives one, the
\* caller number or "Unknown", so every label of a pipeline transcript is
\* that text, whatever the speaker id.
C17_LabelText ==
  /\ analysed =>
       LabelsFrom(analysis.transcript, 1) =
         ExpectedLabels(Flatten(InputParagraphs), 1, identifierInput)
  /\ \A r \in Reqs :
       LET labels == LabelsFrom(transcript[r].transcript, 1)
           caller == IF event[r].From # "" THEN event[r].From ELSE "Unknown"
       IN \A k \in 1..Len(labels) : labels[k] = caller

\* C17 happens: without a speakerIdentifier the labels of two speakers are
\* numbered, and the pipeline labelled the two speakers of an event without
\* caller number "Unknown".
C17_Witness ==
  /\ analysed
  /\ identifierInput = ""
  /\ LabelsFrom(analysis.transcript, 1) = << "Speaker 1", "Speaker 2" >>
  /\ pc[1] = "done"
  /\ event[1].From = ""
  /\ LabelsFrom(transcript[1].transcript, 1) = << "Unknown", "Unknown" >>

RECURSIVE SoloProbes(_, _)
\* The probes of a call of waitForRecording that runs alone, from its
\* attempt i on, when its probes end as outcomes tells, and whether the
\* recording was found.
SoloProbes(outcomes, i) ==
  IF i >= maxAttempts THEN [calls |-> <<>>, available |-> FALSE]
  ELSE IF i + 1 > Len(outcomes) THEN [calls |-> << Ev("probe", "start") >>, available |-> FALSE]
  ELSE IF outcomes[i + 1] = "end"
       THEN [calls |-> << Ev("probe", "start"), Ev("probe", "end") >>, available |-> TRUE]
       ELSE LET rest == SoloProbes(outcomes, i + 1)
            IN [calls |-> << Ev("probe", "start"), Ev("probe", "failed") >> \o rest.calls,
                available |-> rest.available]

\* The calls of one run of handleRecordingComplete that runs alone, and its
\* acknowledgment at the end, when the body is readable or not, the probes
\* end as probes tells, the transcription as transcribed tells with the
\* text it gave, the notification as notified and the deletion as deleted.
SoloRun(ev, readable, probes, transcribed, text, notified, deleted) ==
  LET ack == << Ev("ack", "end") >>
      polled == SoloProbes(probes, 0)
      afterNotify ==
        IF notified = "failed" THEN << Ev("notify", "failed") >>
        ELSE << Ev("notify", "end") >> \o
             (IF ev.RecordingSid # ""
              THEN << Ev("delete", "start"), Ev("delete", deleted) >>
              ELSE <<>>)
      afterAssemble ==
        IF text = <<>> THEN <<>> ELSE << Ev("notify", "start") >> \o afterNotify
      afterTranscribe ==
        IF transcribed = "failed" THEN << Ev("transcribe", "failed") >>
        ELSE << Ev("transcribe", "end"), Ev("assemble", "start") >> \o
             (IF transcribed = "assemble_failed"
              THEN << Ev("assemble", "failed") >>
              ELSE << Ev("assemble", "end") >> \o afterAssemble)
  IN IF ~readable \/ ev.RecordingUrl = "" THEN ack
     ELSE IF ~polled.available THEN polled.calls \o ack
     ELSE polled.calls \o << Ev("transcribe", "start") >> \o afterTranscribe \o ack

\* How the calls of a stage ended in a trace, in order.
OutcomesOf(tr, stage) ==
  LET ended == SelectSeq(tr, LAMBDA e : e.stage = stage /\ e.phase # "start")
  IN [k \in 1..Len(ended) |-> ended[k].phase]

OutcomeOf(tr, stage) == IF Has(tr, stage, "failed") THEN "failed" ELSE "end"

\* What request r keeps for itself.
Local(r) == << pc[r], event[r], attempt[r], trace[r], transcript[r], error[r], response[r], probe[r] >>

\* A finished recording-complete run made the calls, in the order, of the
\* run that gets the same answers alone, and has the acknowledgment.
C15_RunsAsAlone ==
  \A r \in Reqs :
    (pc[r] = "done" /\ IsRecordingComplete(r)) =>
      /\ trace[r] =
           SoloRun(event[r], error[r] # "body unreadable",
                   OutcomesOf(trace[r], "probe"),
                   IF Has(trace[r], "assemble", "failed") THEN "assemble_failed"
                   ELSE OutcomeOf(trace[r], "transcribe"),
                   transcript[r].transcript,
                   OutcomeOf(trace[r], "notify"),
                   OutcomeOf(trace[r], "delete"))
      /\ response[r] = TheAcknowledgment

\* A step that changes what one request keeps leaves alone what the other
\* request keeps.
C15_StepIsLocal ==
  \A r, q \in Reqs : (r # q /\ Local(r)' # Local(r)) => Local(q)' = Local(q)

\* C15: two recording-complete requests handled at once are independent:
\* whatever the interleaving of their steps, no step of one changes anything
\* the other keeps, and each makes the calls and gets the response it would
\* make and get running alone with the same answers to its calls.
C15_IndependentPipelines == []C15_RunsAsAlone /\ [][C15_StepIsLocal]_vars

\* C15 happens: request 1 gave up after its ten probes and is answered,
\* while request 2, at its fourth probe, is still polling.
C15_Witness ==
  /\ inbound = Reqs
  /\ pc[1] = "done"
  /\ error[1] = "Recording not available after retries"
  /\ Count(trace[1], "probe", "failed") = maxAttempts
  /\ response[1] = TheAcknowledgment
  /\ pc[2] = "wait_fetch"
  /\ attempt[2] = 3
  /\ Count(trace[2], "probe", "failed") = 3

====
